---- MODULE Spec2Model ----
(***************************************************************************)
(* Chaum-Pedersen ZKP authentication (timmyjose/zkp_chaum_pedersen).       *)
(*                                                                         *)
(* The verifier (zkp_server/src/lib.rs) keeps two mutex-guarded maps and   *)
(* three write-once cells (P, G, H); the prover (zkp_client) keeps its own *)
(* three cells.  A handler that panics unwinds its task only: the process  *)
(* keeps serving, and a mutex whose guard was alive during the panic stays *)
(* poisoned, so every later lock().unwrap() on it panics too.              *)
(*                                                                         *)
(* Numbers cross the wire as decimal strings, modelled as sequences of     *)
(* one-character strings.  Option<T> is modelled as a sequence of length   *)
(* 0 (None) or 1 (Some).  The generators are the code's g = 5 and h = 3;   *)
(* the modulus 2^255 - 19 is scaled down to the prime 10009 so that the    *)
(* arithmetic stays inside machine integers.                               *)
(***************************************************************************)
EXTENDS Integers, Sequences, FiniteSets, TLC

VARIABLES
    REGISTERED_USERS,   \* verifier: user -> VerifierUserState
    users_poisoned,     \* verifier: the REGISTERED_USERS mutex is poisoned
    AUTH_ID_USER_MAP,   \* verifier: auth_id -> user
    auth_poisoned,      \* verifier: the AUTH_ID_USER_MAP mutex is poisoned
    vP, vG, vH,         \* zkp_verifier::{P, G, H} (OnceCell)
    pP, pG, pH,         \* zkp_prover::{P, G, H} (OnceCell)
    req,                \* the request handled last
    reply,              \* what its handler answered
    attempt,            \* one run of the prover's and verifier's arithmetic
    tasks,              \* verifier: the handler tasks running concurrently
    users_lock,         \* verifier: the task holding the REGISTERED_USERS mutex
    auth_lock,          \* verifier: the task holding the AUTH_ID_USER_MAP mutex
    CLIENT_REGISTERED_USERS,    \* client: zkp_auth_client::REGISTERED_USERS
    client_call,        \* client: the register or login called last
    client_status,      \* client: what that call returned
    rpcs,               \* client: the RPCs that call sent to the verifier
    http_response       \* client: what the REST handler of that call replied

vars == <<REGISTERED_USERS, users_poisoned, AUTH_ID_USER_MAP, auth_poisoned,
          vP, vG, vH, pP, pG, pH, req, reply, attempt,
          tasks, users_lock, auth_lock,
          CLIENT_REGISTERED_USERS, client_call, client_status, rpcs, http_response>>

clientVars == <<CLIENT_REGISTERED_USERS, client_call, client_status, rpcs, http_response>>

----------------------------------------------------------------------------
(* Bounds of the model *)

MaxX == 8
MaxK == 11
MaxC == 4
MaxAuthId == 1
MaxSessionId == 0
MaxPrime == 31

(* Group parameters set by init() *)
DEFAULT_P == 10009
DEFAULT_G == 5
DEFAULT_H == 3

Users == {"alice", "bob"}

\* the handler tasks the runtime runs in parallel
Tasks == {"t1", "t2", "t3"}

----------------------------------------------------------------------------
(* Option<T> *)

None == <<>>
Some(v) == <<v>>
IsSome(o) == o # <<>>
Unwrap(o) == o[1]

----------------------------------------------------------------------------
(* Decimal strings: BigInt::to_string and BigInt::parse_bytes(_, 10) *)

Digits == <<"0", "1", "2", "3", "4", "5", "6", "7", "8", "9">>

DigitVal ==
    "0" :> 0 @@ "1" :> 1 @@ "2" :> 2 @@ "3" :> 3 @@ "4" :> 4 @@
    "5" :> 5 @@ "6" :> 6 @@ "7" :> 7 @@ "8" :> 8 @@ "9" :> 9

IsDigit(ch) == ch \in DOMAIN DigitVal

RECURSIVE NatToString(_)
NatToString(n) ==
    IF n < 10 THEN <<Digits[n + 1]>>
    ELSE NatToString(n \div 10) \o <<Digits[(n % 10) + 1]>>

to_string(n) == IF n < 0 THEN <<"-">> \o NatToString(0 - n) ELSE NatToString(n)

RECURSIVE DigitsValue(_, _)
DigitsValue(w, acc) ==
    IF w = <<>> THEN acc
    ELSE DigitsValue(Tail(w), acc * 10 + DigitVal[Head(w)])

\* BigUint::from_str_radix: an optional leading '+', then one or more digits
ParseBigUint(w) ==
    LET body == IF w # <<>> /\ Head(w) = "+" THEN Tail(w) ELSE w
    IN  IF body = <<>> \/ \E i \in 1..Len(body) : ~IsDigit(body[i])
        THEN None
        ELSE Some(DigitsValue(body, 0))

\* BigInt::parse_bytes(bytes, 10): an optional leading '-', then a BigUint
parse_bytes(w) ==
    IF w # <<>> /\ Head(w) = "-"
    THEN LET tail == Tail(w)
             mag == IF tail # <<>> /\ Head(tail) = "+" THEN None ELSE ParseBigUint(tail)
         IN  IF IsSome(mag) THEN Some(0 - Unwrap(mag)) ELSE None
    ELSE ParseBigUint(w)

----------------------------------------------------------------------------
(* Big-integer arithmetic *)

\* BigInt `/` truncates toward zero
TruncDiv(a, b) ==
    IF (a >= 0) = (b > 0) THEN (IF a >= 0 THEN a ELSE 0 - a) \div (IF b > 0 THEN b ELSE 0 - b)
    ELSE 0 - ((IF a >= 0 THEN a ELSE 0 - a) \div (IF b > 0 THEN b ELSE 0 - b))

\* BigInt::modpow(exp, m) for exp >= 0, m > 0: the result is in [0, m)
RECURSIVE ModPow(_, _, _)
ModPow(base, exp, m) ==
    IF exp = 0 THEN 1 % m
    ELSE LET half == ModPow(base, exp \div 2, m)
             square == (half * half) % m
         IN  IF exp % 2 = 0 THEN square ELSE (square * (base % m)) % m

\* one iteration of the loop of get_extended_euclidean: the next <<u, v>>
EuclidIteration(u, v) ==
    LET q == TruncDiv(u[3], v[3])
        temp1 == u[1] - q * v[1]
        temp2 == u[2] - q * v[2]
        temp3 == u[3] - q * v[3]
    IN  <<v, <<temp1, temp2, temp3>>>>

\* the loop of get_extended_euclidean on the two triples u and v
RECURSIVE EuclidLoop(_, _)
EuclidLoop(u, v) ==
    IF v[3] = 0 THEN u
    ELSE LET next == EuclidIteration(u, v)
         IN  EuclidLoop(next[1], next[2])

\* mutant: a negative coefficient is returned as it is
EuclidResult_no_wrap(u, phi) == u[2]

\* the value returned after the loop: the coefficient of b, brought into [0, phi)
EuclidResult(u, phi) == IF u[2] < 0 THEN u[2] + phi ELSE u[2]

\* mutant: the coefficient of phi is returned instead of that of b
get_extended_euclidean_wrong_coefficient(b, phi) ==
    LET u == EuclidLoop(<<1, 0, phi>>, <<0, 1, b>>)
    IN  IF u[1] < 0 THEN u[1] + phi ELSE u[1]

get_extended_euclidean(b, phi) ==
    EuclidResult(EuclidLoop(<<1, 0, phi>>, <<0, 1, b>>), phi)

----------------------------------------------------------------------------
(* zkp_prover (client) *)

prover_init_panics(cell) == IsSome(cell.P) \/ IsSome(cell.G) \/ IsSome(cell.H)

\* mutant: the prover takes g and h the other way round
prover_init_swapped(cell) ==
    [P |-> Some(DEFAULT_P), G |-> Some(DEFAULT_H), H |-> Some(DEFAULT_G)]

prover_init(cell) ==
    [P |-> Some(DEFAULT_P), G |-> Some(DEFAULT_G), H |-> Some(DEFAULT_H)]

gen_public(cell, x) ==
    <<ModPow(Unwrap(cell.G), x, Unwrap(cell.P)), ModPow(Unwrap(cell.H), x, Unwrap(cell.P))>>

gen_random(cell, k) ==
    <<ModPow(Unwrap(cell.G), k, Unwrap(cell.P)), ModPow(Unwrap(cell.H), k, Unwrap(cell.P))>>

challenge_answer(c, k, x) == k - c * x

----------------------------------------------------------------------------
(* zkp_verifier (server) *)

\* P.set(..).unwrap() panics when the cell is already set
verifier_init_panics(cell) == IsSome(cell.P) \/ IsSome(cell.G) \/ IsSome(cell.H)

verifier_init(cell) ==
    [P |-> Some(DEFAULT_P), G |-> Some(DEFAULT_G), H |-> Some(DEFAULT_H)]

\* verify panics on get_p().unwrap() of an unset cell and on modpow with a
\* negative exponent (the c < 0 branch passes c itself)
verify_panics(cell, s, c, y1, y2, r1, r2) ==
    ~IsSome(cell.P) \/ ~IsSome(cell.G) \/ ~IsSome(cell.H) \/ c < 0

\* (r1_prime, r2_prime) of verify
verify_r_prime(cell, s, c, y1, y2) ==
    LET p == Unwrap(cell.P)
        g == Unwrap(cell.G)
        h == Unwrap(cell.H)
        val1 == IF s < 0 THEN get_extended_euclidean(ModPow(g, 0 - s, p), p)
                ELSE ModPow(g, s, p)
        val2 == IF s < 0 THEN get_extended_euclidean(ModPow(h, 0 - s, p), p)
                ELSE ModPow(h, s, p)
        \* c >= 0 here: with c < 0 the call panics (verify_panics)
        val3 == ModPow(y1, c, p)
        val4 == ModPow(y2, c, p)
        r1_prime == (val1 * val3) % p
        r2_prime == (val2 * val4) % p
    IN  <<r1_prime, r2_prime>>

\* mutant: only the first component is compared
verify_r1_only(cell, s, c, y1, y2, r1, r2) ==
    LET r_prime == verify_r_prime(cell, s, c, y1, y2)
    IN  r1 = r_prime[1]

verify(cell, s, c, y1, y2, r1, r2) ==
    LET r_prime == verify_r_prime(cell, s, c, y1, y2)
    IN  r1 = r_prime[1] /\ r2 = r_prime[2]

----------------------------------------------------------------------------
(* Verifier state and the three RPC handlers *)

VerifierUserState(y1, y2) == [y1 |-> y1, y2 |-> y2, r1 |-> None, r2 |-> None, c |-> None]

\* HashMap::insert
MapInsert(m, k, v) == [x \in (DOMAIN m) \cup {k} |-> IF x = k THEN v ELSE m[x]]

\* the verifier's process state as one value
Sv == [users |-> REGISTERED_USERS, users_poisoned |-> users_poisoned,
       auth |-> AUTH_ID_USER_MAP, auth_poisoned |-> auth_poisoned,
       cell |-> [P |-> vP, G |-> vG, H |-> vH]]

Reply(status, message, auth_id, c, session_id) ==
    [status |-> status, message |-> message, auth_id |-> auth_id, c |-> c,
     session_id |-> session_id]

OkEmpty == Reply("Ok", "", <<>>, <<>>, <<>>)
Status(code, message) == Reply(code, message, <<>>, <<>>, <<>>)
\* the handler's task unwound: the caller gets no response of the handler
Panicked == Reply("Panic", "", <<>>, <<>>, <<>>)

Out(sv, rep) == [sv |-> sv, reply |-> rep]

\* mutant: no contains_key check, a known user is inserted again
register_overwriting(sv, user, y1, y2) ==
    LET y1_parsed == parse_bytes(y1)
        y2_parsed == parse_bytes(y2)
    IN  IF sv.users_poisoned THEN Out(sv, Panicked)
        ELSE IF ~IsSome(y1_parsed)
             THEN Out(sv, Status("InvalidArgument", "failed to extract y1"))
        ELSE IF ~IsSome(y2_parsed)
             THEN Out(sv, Status("InvalidArgument", "failed to extract y2"))
        ELSE LET state == VerifierUserState(Unwrap(y1_parsed), Unwrap(y2_parsed))
                 inserted == [sv EXCEPT !.users = MapInsert(sv.users, user, state)]
             IN  IF verifier_init_panics(inserted.cell) THEN Out(inserted, Panicked)
                 ELSE Out([inserted EXCEPT !.cell = verifier_init(inserted.cell)], OkEmpty)

\* mutant: a field that does not parse is taken as BigInt::default()
register_lenient(sv, user, y1, y2) ==
    LET y1_parsed == IF IsSome(parse_bytes(y1)) THEN parse_bytes(y1) ELSE Some(0)
        y2_parsed == IF IsSome(parse_bytes(y2)) THEN parse_bytes(y2) ELSE Some(0)
    IN  IF sv.users_poisoned THEN Out(sv, Panicked)
        ELSE IF user \in DOMAIN sv.users THEN Out(sv, OkEmpty)
        ELSE LET state == VerifierUserState(Unwrap(y1_parsed), Unwrap(y2_parsed))
                 inserted == [sv EXCEPT !.users = MapInsert(sv.users, user, state)]
             IN  IF verifier_init_panics(inserted.cell) THEN Out(inserted, Panicked)
                 ELSE Out([inserted EXCEPT !.cell = verifier_init(inserted.cell)], OkEmpty)

\* Verifier::register
register(sv, user, y1, y2) ==
    LET y1_parsed == parse_bytes(y1)
        y2_parsed == parse_bytes(y2)
    IN  IF sv.users_poisoned THEN Out(sv, Panicked)
        ELSE IF user \in DOMAIN sv.users THEN Out(sv, OkEmpty)
        ELSE IF ~IsSome(y1_parsed)
             THEN Out(sv, Status("InvalidArgument", "failed to extract y1"))
        ELSE IF ~IsSome(y2_parsed)
             THEN Out(sv, Status("InvalidArgument", "failed to extract y2"))
        ELSE LET state == VerifierUserState(Unwrap(y1_parsed), Unwrap(y2_parsed))
                 inserted == [sv EXCEPT !.users = MapInsert(sv.users, user, state)]
             IN  \* zkp_verifier::init() after the insert
                 IF verifier_init_panics(inserted.cell) THEN Out(inserted, Panicked)
                 ELSE Out([inserted EXCEPT !.cell = verifier_init(inserted.cell)], OkEmpty)

\* mutant: no contains_key check; and_modify leaves an unknown user alone
create_authentication_challenge_unchecked(sv, user, r1, r2, auth_id, challenge) ==
    LET r1_parsed == parse_bytes(r1)
        r2_parsed == parse_bytes(r2)
    IN  IF ~IsSome(r1_parsed) \/ ~IsSome(r2_parsed) THEN Out(sv, Panicked)
        ELSE IF sv.users_poisoned THEN Out(sv, Panicked)
        ELSE LET modified ==
                    IF user \notin DOMAIN sv.users THEN sv
                    ELSE [sv EXCEPT !.users[user].c = Some(challenge),
                                    !.users[user].r1 = Some(Unwrap(r1_parsed)),
                                    !.users[user].r2 = Some(Unwrap(r2_parsed))]
             IN  IF sv.auth_poisoned THEN Out(modified, Panicked)
                 ELSE Out([modified EXCEPT !.auth = MapInsert(sv.auth, auth_id, user)],
                          Reply("Ok", "", to_string(auth_id), to_string(challenge), <<>>))

\* mutant: the first challenge wins, a populated attempt is not overwritten
create_authentication_challenge_first_wins(sv, user, r1, r2, auth_id, challenge) ==
    LET r1_parsed == parse_bytes(r1)
        r2_parsed == parse_bytes(r2)
    IN  IF ~IsSome(r1_parsed) \/ ~IsSome(r2_parsed) THEN Out(sv, Panicked)
        ELSE IF sv.users_poisoned THEN Out(sv, Panicked)
        ELSE IF user \notin DOMAIN sv.users
             THEN Out(sv, Status("NotFound", "user is not registered"))
        ELSE LET modified ==
                    IF IsSome(sv.users[user].c) THEN sv
                    ELSE [sv EXCEPT !.users[user].c = Some(challenge),
                                    !.users[user].r1 = Some(Unwrap(r1_parsed)),
                                    !.users[user].r2 = Some(Unwrap(r2_parsed))]
             IN  IF sv.auth_poisoned THEN Out(modified, Panicked)
                 ELSE Out([modified EXCEPT !.auth = MapInsert(sv.auth, auth_id, user)],
                          Reply("Ok", "", to_string(auth_id), to_string(challenge), <<>>))

\* Verifier::create_authentication_challenge; auth_id and challenge are the
\* two draws of gen_random_with_n_bits::<128>()
create_authentication_challenge(sv, user, r1, r2, auth_id, challenge) ==
    LET r1_parsed == parse_bytes(r1)
        r2_parsed == parse_bytes(r2)
    IN  \* parse_bytes(..).unwrap()
        IF ~IsSome(r1_parsed) \/ ~IsSome(r2_parsed) THEN Out(sv, Panicked)
        ELSE IF sv.users_poisoned THEN Out(sv, Panicked)
        ELSE IF user \notin DOMAIN sv.users
             THEN Out(sv, Status("NotFound", "user is not registered"))
        ELSE LET modified == [sv EXCEPT !.users[user].c = Some(challenge),
                                        !.users[user].r1 = Some(Unwrap(r1_parsed)),
                                        !.users[user].r2 = Some(Unwrap(r2_parsed))]
             IN  \* AUTH_ID_USER_MAP.lock().unwrap() after the user state is updated
                 IF sv.auth_poisoned THEN Out(modified, Panicked)
                 ELSE Out([modified EXCEPT !.auth = MapInsert(sv.auth, auth_id, user)],
                          Reply("Ok", "", to_string(auth_id), to_string(challenge), <<>>))

\* mutant: a verify that reaches the comparison consumes the attempt: it
\* clears (r1, r2, c) and removes the auth_id
verify_authentication_consuming(sv, auth_id, s, session_id) ==
    LET auth_id_parsed == parse_bytes(auth_id)
        s_parsed == parse_bytes(s)
    IN  IF ~IsSome(auth_id_parsed) \/ ~IsSome(s_parsed) THEN Out(sv, Panicked)
        ELSE IF sv.auth_poisoned THEN Out(sv, Panicked)
        ELSE IF Unwrap(auth_id_parsed) \notin DOMAIN sv.auth
             THEN Out([sv EXCEPT !.auth_poisoned = TRUE], Panicked)
        ELSE IF sv.users_poisoned THEN Out(sv, Panicked)
        ELSE IF sv.auth[Unwrap(auth_id_parsed)] \notin DOMAIN sv.users
             THEN Out([sv EXCEPT !.users_poisoned = TRUE], Panicked)
        ELSE LET user == sv.auth[Unwrap(auth_id_parsed)]
                 user_state == sv.users[user]
                 consumed ==
                    [sv EXCEPT !.users[user].r1 = None, !.users[user].r2 = None,
                               !.users[user].c = None,
                               !.auth = [a \in DOMAIN sv.auth \ {Unwrap(auth_id_parsed)}
                                            |-> sv.auth[a]]]
             IN  IF ~IsSome(user_state.r1) \/ ~IsSome(user_state.r2)
                    \/ ~IsSome(user_state.c)
                 THEN Out(sv, Panicked)
                 ELSE IF verify_panics(sv.cell, Unwrap(s_parsed), Unwrap(user_state.c),
                                       user_state.y1, user_state.y2,
                                       Unwrap(user_state.r1), Unwrap(user_state.r2))
                 THEN Out(sv, Panicked)
                 ELSE IF verify(sv.cell, Unwrap(s_parsed), Unwrap(user_state.c),
                                user_state.y1, user_state.y2,
                                Unwrap(user_state.r1), Unwrap(user_state.r2))
                 THEN Out(consumed, Reply("Ok", "", <<>>, <<>>, to_string(session_id)))
                 ELSE Out(consumed, Status("Unauthenticated", "user authentication failed"))

\* Verifier::verify_authentication; session_id is the draw of
\* gen_random_with_n_bits::<128>()
verify_authentication(sv, auth_id, s, session_id) ==
    LET auth_id_parsed == parse_bytes(auth_id)
        s_parsed == parse_bytes(s)
    IN  \* parse_bytes(..).unwrap()
        IF ~IsSome(auth_id_parsed) \/ ~IsSome(s_parsed) THEN Out(sv, Panicked)
        ELSE IF sv.auth_poisoned THEN Out(sv, Panicked)
        ELSE IF Unwrap(auth_id_parsed) \notin DOMAIN sv.auth
             \* get(&auth_id).unwrap() on None while the guard is alive
             THEN Out([sv EXCEPT !.auth_poisoned = TRUE], Panicked)
        ELSE IF sv.users_poisoned THEN Out(sv, Panicked)
        ELSE IF sv.auth[Unwrap(auth_id_parsed)] \notin DOMAIN sv.users
             \* get(&user_for_auth_id).unwrap() on None while the guard is alive
             THEN Out([sv EXCEPT !.users_poisoned = TRUE], Panicked)
        ELSE LET user_state == sv.users[sv.auth[Unwrap(auth_id_parsed)]]
             IN  \* r1, r2, c: Option::unwrap()
                 IF ~IsSome(user_state.r1) \/ ~IsSome(user_state.r2)
                    \/ ~IsSome(user_state.c)
                 THEN Out(sv, Panicked)
                 ELSE IF verify_panics(sv.cell, Unwrap(s_parsed), Unwrap(user_state.c),
                                       user_state.y1, user_state.y2,
                                       Unwrap(user_state.r1), Unwrap(user_state.r2))
                 THEN Out(sv, Panicked)
                 ELSE IF verify(sv.cell, Unwrap(s_parsed), Unwrap(user_state.c),
                                user_state.y1, user_state.y2,
                                Unwrap(user_state.r1), Unwrap(user_state.r2))
                 THEN Out(sv, Reply("Ok", "", <<>>, <<>>, to_string(session_id)))
                 ELSE Out(sv, Status("Unauthenticated", "user authentication failed"))

----------------------------------------------------------------------------
(* Requests the callers send *)

\* the cells as init() leaves them
InitialisedCell == [P |-> Some(DEFAULT_P), G |-> Some(DEFAULT_G), H |-> Some(DEFAULT_H)]

Wire(pair) == <<to_string(pair[1]), to_string(pair[2])>>

Nonces == {MaxK}
Challenges == {0, MaxC}
AuthIds == 0..MaxAuthId
SessionIds == 0..MaxSessionId

\* (y1, y2) of a Register request: the public pair of a secret, a pair whose
\* halves are not powers of one secret, and two with a field that is no
\* decimal number
RegisterInputs ==
    {Wire(gen_public(InitialisedCell, MaxX - 1)),
     <<to_string(gen_public(InitialisedCell, MaxX - 1)[1]), <<"9">> >>,
     << <<"x">>, <<"9">> >>, << <<"5">>, <<>> >>}

\* (r1, r2) of a challenge request
ChallengeInputs ==
    {Wire(gen_random(InitialisedCell, k)) : k \in Nonces}
    \cup {<< <<"7", "x">>, <<"2">> >>, << <<"7">>, <<"-">> >>}

\* s of a verify request: the answers of the registered secret and one answer
\* computed from another secret
Answers ==
    {to_string(challenge_answer(c, k, MaxX - 1)) : c \in Challenges, k \in Nonces}
    \cup {to_string(challenge_answer(MaxC, MaxK, MaxX))}

\* (auth_id, s) of a verify request: every auth_id the verifier can issue with
\* every answer, and two with a field that is no decimal number
VerifyInputs ==
    {<<to_string(a), s>> : a \in AuthIds, s \in Answers}
    \cup {<< <<"z">>, to_string(MaxK) >>, << to_string(0), <<"1", "e", "3">> >>}

Request(op, user, n1, n2) == [op |-> op, user |-> user, n1 |-> n1, n2 |-> n2]

----------------------------------------------------------------------------
(* The verifier process serving one request at a time *)

\* zkp_auth_client::register / login as called, and their results
ClientCall(op, user, password) == [op |-> op, user |-> user, password |-> password]
ClientStatus(kind, session_id, status) ==
    [kind |-> kind, session_id |-> session_id, status |-> status]

\* warp::http::StatusCode
OK == 200
CREATED == 201
UNAUTHORIZED == 401
NOT_FOUND == 404
CONFLICT == 409

\* reply::with_status(reply::json(&response), code); the status text is kept
\* as the pieces format! joins
HttpReply(code, user, status, session_id) ==
    [code |-> code, user |-> user, status |-> status, session_id |-> session_id]

\* the handler has sent no reply: none was called yet, or it panicked
NoHttpReply == HttpReply(0, "", <<>>, None)

\* a task slot that serves no request yet
IdleTask == [pc |-> "idle", op |-> "none", user |-> "", n1 |-> <<>>, n2 |-> <<>>,
             auth_id |-> 0, challenge |-> 0, session_id |-> 0,
             user_for_auth_id |-> "", user_state |-> None,
             reply |-> Reply("none", "", <<>>, <<>>, <<>>)]

NoAttempt == [stage |-> "none", x |-> 0, k |-> 0, c |-> 0, s |-> 0,
              y |-> <<0, 0>>, r |-> <<0, 0>>, r_prime |-> <<0, 0>>, accepted |-> FALSE]

Init ==
    /\ REGISTERED_USERS = <<>>
    /\ users_poisoned = FALSE
    /\ AUTH_ID_USER_MAP = <<>>
    /\ auth_poisoned = FALSE
    /\ vP = None /\ vG = None /\ vH = None
    /\ pP = None /\ pG = None /\ pH = None
    /\ req = Request("none", "", <<>>, <<>>)
    /\ reply = Reply("none", "", <<>>, <<>>, <<>>)
    /\ attempt = NoAttempt
    /\ tasks = [t \in Tasks |-> IdleTask]
    /\ users_lock = "free"
    /\ auth_lock = "free"
    /\ CLIENT_REGISTERED_USERS = {}
    /\ client_call = ClientCall("none", "", <<>>)
    /\ client_status = ClientStatus("none", <<>>, "")
    /\ rpcs = <<>>
    /\ http_response = NoHttpReply

\* the handler's outcome becomes the process state
Serve(out) ==
    /\ REGISTERED_USERS' = out.sv.users
    /\ users_poisoned' = out.sv.users_poisoned
    /\ AUTH_ID_USER_MAP' = out.sv.auth
    /\ auth_poisoned' = out.sv.auth_poisoned
    /\ vP' = out.sv.cell.P /\ vG' = out.sv.cell.G /\ vH' = out.sv.cell.H
    /\ reply' = out.reply
    /\ UNCHANGED <<pP, pG, pH, attempt, tasks, users_lock, auth_lock, clientVars>>

Register(user, y1, y2) ==
    /\ req' = Request("register", user, y1, y2)
    /\ Serve(register(Sv, user, y1, y2))

CreateAuthenticationChallenge(user, r1, r2, auth_id, challenge) ==
    /\ req' = Request("challenge", user, r1, r2)
    /\ Serve(create_authentication_challenge(Sv, user, r1, r2, auth_id, challenge))

VerifyAuthentication(auth_id, s, session_id) ==
    /\ req' = Request("verify", "", auth_id, s)
    /\ Serve(verify_authentication(Sv, auth_id, s, session_id))

Next ==
    \/ \E user \in Users, y \in RegisterInputs : Register(user, y[1], y[2])
    \/ \E user \in Users, r \in ChallengeInputs, auth_id \in AuthIds,
          challenge \in Challenges :
            CreateAuthenticationChallenge(user, r[1], r[2], auth_id, challenge)
    \/ \E v \in VerifyInputs, session_id \in SessionIds :
            VerifyAuthentication(v[1], v[2], session_id)

Spec == Init /\ [][Next]_vars

----------------------------------------------------------------------------
(* The arithmetic of one attempt on its own: the prover derives (y1, y2),   *)
(* (r1, r2) and s from x, k and c, and the verifier evaluates its equation. *)

InitArithmetic ==
    /\ REGISTERED_USERS = <<>>
    /\ users_poisoned = FALSE
    /\ AUTH_ID_USER_MAP = <<>>
    /\ auth_poisoned = FALSE
    /\ vP = InitialisedCell.P /\ vG = InitialisedCell.G /\ vH = InitialisedCell.H
    /\ pP = InitialisedCell.P /\ pG = InitialisedCell.G /\ pH = InitialisedCell.H
    /\ req = Request("none", "", <<>>, <<>>)
    /\ reply = Reply("none", "", <<>>, <<>>, <<>>)
    /\ attempt \in {[NoAttempt EXCEPT !.stage = "drawn", !.x = x, !.k = k, !.c = c] :
                        x \in 0..MaxX, k \in 0..MaxK, c \in 0..MaxC}
    /\ tasks = [t \in Tasks |-> IdleTask]
    /\ users_lock = "free"
    /\ auth_lock = "free"
    /\ CLIENT_REGISTERED_USERS = {}
    /\ client_call = ClientCall("none", "", <<>>)
    /\ client_status = ClientStatus("none", <<>>, "")
    /\ rpcs = <<>>
    /\ http_response = NoHttpReply

ProveAndVerify ==
    /\ attempt.stage = "drawn"
    /\ LET prover == [P |-> pP, G |-> pG, H |-> pH]
           verifier == [P |-> vP, G |-> vG, H |-> vH]
           y == gen_public(prover, attempt.x)
           r == gen_random(prover, attempt.k)
           s == challenge_answer(attempt.c, attempt.k, attempt.x)
       IN  attempt' = [attempt EXCEPT
                !.stage = "verified", !.y = y, !.r = r, !.s = s,
                !.r_prime = verify_r_prime(verifier, s, attempt.c, y[1], y[2]),
                !.accepted = verify(verifier, s, attempt.c, y[1], y[2], r[1], r[2])]
    /\ UNCHANGED <<REGISTERED_USERS, users_poisoned, AUTH_ID_USER_MAP, auth_poisoned,
                   vP, vG, vH, pP, pG, pH, req, reply, tasks, users_lock, auth_lock,
                   clientVars>>

NextArithmetic == ProveAndVerify

SpecArithmetic == InitArithmetic /\ [][NextArithmetic]_vars

----------------------------------------------------------------------------
(* zkp_verifier::verify on its own, called with answers and challenges of   *)
(* either sign.                                                             *)

InitSigned ==
    /\ REGISTERED_USERS = <<>>
    /\ users_poisoned = FALSE
    /\ AUTH_ID_USER_MAP = <<>>
    /\ auth_poisoned = FALSE
    /\ vP = InitialisedCell.P /\ vG = InitialisedCell.G /\ vH = InitialisedCell.H
    /\ pP = InitialisedCell.P /\ pG = InitialisedCell.G /\ pH = InitialisedCell.H
    /\ req = Request("none", "", <<>>, <<>>)
    /\ reply = Reply("none", "", <<>>, <<>>, <<>>)
    /\ attempt \in {[NoAttempt EXCEPT !.stage = "drawn", !.x = MaxX - 1, !.k = MaxK,
                                        !.s = s, !.c = c,
                                        !.y = gen_public(InitialisedCell, MaxX - 1),
                                        !.r = gen_random(InitialisedCell, MaxK)] :
                        s \in (0 - MaxK)..MaxK, c \in (0 - MaxC)..MaxC}
    /\ tasks = [t \in Tasks |-> IdleTask]
    /\ users_lock = "free"
    /\ auth_lock = "free"
    /\ CLIENT_REGISTERED_USERS = {}
    /\ client_call = ClientCall("none", "", <<>>)
    /\ client_status = ClientStatus("none", <<>>, "")
    /\ rpcs = <<>>
    /\ http_response = NoHttpReply

\* verify(&s, &c, &y1, &y2, &r1, &r2): it returns a bool or panics
VerifySigned ==
    /\ attempt.stage = "drawn"
    /\ LET verifier == [P |-> vP, G |-> vG, H |-> vH]
       IN  IF verify_panics(verifier, attempt.s, attempt.c, attempt.y[1], attempt.y[2],
                            attempt.r[1], attempt.r[2])
           THEN attempt' = [attempt EXCEPT !.stage = "panicked"]
           ELSE attempt' = [attempt EXCEPT
                    !.stage = "verified",
                    !.r_prime = verify_r_prime(verifier, attempt.s, attempt.c,
                                               attempt.y[1], attempt.y[2]),
                    !.accepted = verify(verifier, attempt.s, attempt.c,
                                        attempt.y[1], attempt.y[2],
                                        attempt.r[1], attempt.r[2])]
    /\ UNCHANGED <<REGISTERED_USERS, users_poisoned, AUTH_ID_USER_MAP, auth_poisoned,
                   vP, vG, vH, pP, pG, pH, req, reply, tasks, users_lock, auth_lock,
                   clientVars>>

NextSigned == VerifySigned

SpecSigned == InitSigned /\ [][NextSigned]_vars

----------------------------------------------------------------------------
(* get_extended_euclidean on its own, one loop iteration per step, for      *)
(* every prime modulus up to MaxPrime and every b in [1, phi).              *)

IsPrime(n) == n > 1 /\ \A d \in 2..(n - 1) : n % d # 0

InitInverse ==
    /\ REGISTERED_USERS = <<>>
    /\ users_poisoned = FALSE
    /\ AUTH_ID_USER_MAP = <<>>
    /\ auth_poisoned = FALSE
    /\ vP = InitialisedCell.P /\ vG = InitialisedCell.G /\ vH = InitialisedCell.H
    /\ pP = InitialisedCell.P /\ pG = InitialisedCell.G /\ pH = InitialisedCell.H
    /\ req = Request("none", "", <<>>, <<>>)
    /\ reply = Reply("none", "", <<>>, <<>>, <<>>)
    /\ attempt \in {[stage |-> "loop", b |-> b, phi |-> phi,
                      u |-> <<1, 0, phi>>, v |-> <<0, 1, b>>, inverse |-> 0] :
                        <<b, phi>> \in {bp \in (1..MaxPrime) \X (2..MaxPrime) :
                                            IsPrime(bp[2]) /\ bp[1] < bp[2]}}
    /\ tasks = [t \in Tasks |-> IdleTask]
    /\ users_lock = "free"
    /\ auth_lock = "free"
    /\ CLIENT_REGISTERED_USERS = {}
    /\ client_call = ClientCall("none", "", <<>>)
    /\ client_status = ClientStatus("none", <<>>, "")
    /\ rpcs = <<>>
    /\ http_response = NoHttpReply

\* while v[2] != 0 { ... }: one pass through the body
EuclidStep ==
    /\ attempt.stage = "loop"
    /\ attempt.v[3] # 0
    /\ LET next == EuclidIteration(attempt.u, attempt.v)
       IN  attempt' = [attempt EXCEPT !.u = next[1], !.v = next[2]]
    /\ UNCHANGED <<REGISTERED_USERS, users_poisoned, AUTH_ID_USER_MAP, auth_poisoned,
                   vP, vG, vH, pP, pG, pH, req, reply, tasks, users_lock, auth_lock,
                   clientVars>>

\* the loop has ended: the function returns
EuclidReturn ==
    /\ attempt.stage = "loop"
    /\ attempt.v[3] = 0
    /\ attempt' = [attempt EXCEPT !.stage = "returned",
                                  !.inverse = EuclidResult(attempt.u, attempt.phi)]
    /\ UNCHANGED <<REGISTERED_USERS, users_poisoned, AUTH_ID_USER_MAP, auth_poisoned,
                   vP, vG, vH, pP, pG, pH, req, reply, tasks, users_lock, auth_lock,
                   clientVars>>

NextInverse ==
    \/ EuclidStep
    \/ EuclidReturn

\* the call is one sequential computation: it keeps running until it returns
SpecInverse == InitInverse /\ [][NextInverse]_vars /\ WF_vars(NextInverse)

----------------------------------------------------------------------------
(* The verifier's handlers running as concurrent tasks.  Each task serves   *)
(* one request; a step is what a handler does between two points where      *)
(* another thread can run: taking a mutex, the statement executed under its *)
(* temporary guard (which releases it), or one OnceCell::set of init().     *)

\* the requests of the concurrent callers: two Registers of one user with
\* different (y1, y2), a challenge and a verify
ConcurrentRequests ==
    LET y == Wire(gen_public(InitialisedCell, MaxX - 1))
        r == Wire(gen_random(InitialisedCell, MaxK))
        request(op, n1, n2) ==
            [op |-> op, user |-> "alice", n1 |-> n1, n2 |-> n2,
             auth_id |-> 0, challenge |-> MaxC, session_id |-> 0]
    IN  {request("register", y[1], y[2]), request("register", y[1], <<"9">>),
         request("challenge", r[1], r[2]),
         request("verify", to_string(0),
                 to_string(challenge_answer(MaxC, MaxK, MaxX - 1)))}

\* the task returns (or unwinds) with rep
Finish(t, rep) ==
    tasks' = [tasks EXCEPT ![t] = [IdleTask EXCEPT !.pc = "done", !.op = tasks[t].op,
                                                   !.reply = rep]]

Goto(t, pc) == tasks' = [tasks EXCEPT ![t].pc = pc]

\* the handler is entered; challenge and verify parse their fields first
Start(t, request) ==
    /\ tasks[t].pc = "idle"
    /\ LET entered == [IdleTask EXCEPT !.op = request.op, !.user = request.user,
                            !.n1 = request.n1, !.n2 = request.n2,
                            !.auth_id = request.auth_id,
                            !.challenge = request.challenge,
                            !.session_id = request.session_id]
       IN  IF request.op = "register"
           THEN tasks' = [tasks EXCEPT ![t] = [entered EXCEPT !.pc = "register_lock_contains"]]
           ELSE IF ~IsSome(parse_bytes(request.n1)) \/ ~IsSome(parse_bytes(request.n2))
           THEN tasks' = [tasks EXCEPT ![t] = [IdleTask EXCEPT !.pc = "done",
                                !.op = request.op, !.reply = Panicked]]
           ELSE IF request.op = "challenge"
           THEN tasks' = [tasks EXCEPT ![t] = [entered EXCEPT !.pc = "challenge_lock_contains"]]
           ELSE tasks' = [tasks EXCEPT ![t] = [entered EXCEPT !.pc = "verify_lock_auth"]]
    /\ UNCHANGED <<REGISTERED_USERS, users_poisoned, AUTH_ID_USER_MAP, auth_poisoned,
                   vP, vG, vH, pP, pG, pH, req, reply, attempt, users_lock, auth_lock,
                   clientVars>>

\* the statement a task executes once it holds REGISTERED_USERS
AfterLockUsers ==
    [register_lock_contains |-> "register_contains",
     register_lock_insert |-> "register_insert",
     challenge_lock_contains |-> "challenge_contains",
     challenge_lock_modify |-> "challenge_modify",
     verify_lock_users |-> "verify_get_state"]

\* the statement a task executes once it holds AUTH_ID_USER_MAP
AfterLockAuth ==
    [challenge_lock_insert |-> "challenge_insert",
     verify_lock_auth |-> "verify_get_user"]

\* REGISTERED_USERS.lock(): blocks while another task holds the mutex
LockUsers(t) ==
    /\ tasks[t].pc \in DOMAIN AfterLockUsers
    /\ users_lock = "free"
    /\ users_lock' = t
    /\ Goto(t, AfterLockUsers[tasks[t].pc])
    /\ UNCHANGED <<REGISTERED_USERS, users_poisoned, AUTH_ID_USER_MAP, auth_poisoned,
                   vP, vG, vH, pP, pG, pH, req, reply, attempt, auth_lock,
                   clientVars>>

\* AUTH_ID_USER_MAP.lock()
LockAuth(t) ==
    /\ tasks[t].pc \in DOMAIN AfterLockAuth
    /\ auth_lock = "free"
    /\ auth_lock' = t
    /\ Goto(t, AfterLockAuth[tasks[t].pc])
    /\ UNCHANGED <<REGISTERED_USERS, users_poisoned, AUTH_ID_USER_MAP, auth_poisoned,
                   vP, vG, vH, pP, pG, pH, req, reply, attempt, users_lock,
                   clientVars>>

\* register: REGISTERED_USERS.lock().unwrap().contains_key(&request.user),
\* then the two parse_bytes
RegisterContains(t) ==
    /\ tasks[t].pc = "register_contains"
    /\ users_lock' = "free"
    /\ IF users_poisoned THEN Finish(t, Panicked)
       ELSE IF tasks[t].user \in DOMAIN REGISTERED_USERS THEN Finish(t, OkEmpty)
       ELSE IF ~IsSome(parse_bytes(tasks[t].n1))
            THEN Finish(t, Status("InvalidArgument", "failed to extract y1"))
       ELSE IF ~IsSome(parse_bytes(tasks[t].n2))
            THEN Finish(t, Status("InvalidArgument", "failed to extract y2"))
       ELSE Goto(t, "register_lock_insert")
    /\ UNCHANGED <<REGISTERED_USERS, users_poisoned, AUTH_ID_USER_MAP, auth_poisoned,
                   vP, vG, vH, pP, pG, pH, req, reply, attempt, auth_lock,
                   clientVars>>

\* register: REGISTERED_USERS.lock().unwrap().insert(user, VerifierUserState {..})
RegisterInsert(t) ==
    /\ tasks[t].pc = "register_insert"
    /\ users_lock' = "free"
    /\ IF users_poisoned
       THEN Finish(t, Panicked) /\ UNCHANGED REGISTERED_USERS
       ELSE /\ REGISTERED_USERS' =
                    MapInsert(REGISTERED_USERS, tasks[t].user,
                        VerifierUserState(Unwrap(parse_bytes(tasks[t].n1)),
                                          Unwrap(parse_bytes(tasks[t].n2))))
            /\ Goto(t, "init_P")
    /\ UNCHANGED <<users_poisoned, AUTH_ID_USER_MAP, auth_poisoned,
                   vP, vG, vH, pP, pG, pH, req, reply, attempt, auth_lock,
                   clientVars>>

\* init(): P.set(..).unwrap()
InitP(t) ==
    /\ tasks[t].pc = "init_P"
    /\ IF IsSome(vP) THEN Finish(t, Panicked) /\ UNCHANGED vP
       ELSE vP' = Some(DEFAULT_P) /\ Goto(t, "init_G")
    /\ UNCHANGED <<REGISTERED_USERS, users_poisoned, AUTH_ID_USER_MAP, auth_poisoned,
                   vG, vH, pP, pG, pH, req, reply, attempt, users_lock, auth_lock,
                   clientVars>>

\* init(): G.set(..).unwrap()
InitG(t) ==
    /\ tasks[t].pc = "init_G"
    /\ IF IsSome(vG) THEN Finish(t, Panicked) /\ UNCHANGED vG
       ELSE vG' = Some(DEFAULT_G) /\ Goto(t, "init_H")
    /\ UNCHANGED <<REGISTERED_USERS, users_poisoned, AUTH_ID_USER_MAP, auth_poisoned,
                   vP, vH, pP, pG, pH, req, reply, attempt, users_lock, auth_lock,
                   clientVars>>

\* init(): H.set(..).unwrap(), and register returns Ok
InitH(t) ==
    /\ tasks[t].pc = "init_H"
    /\ IF IsSome(vH) THEN Finish(t, Panicked) /\ UNCHANGED vH
       ELSE vH' = Some(DEFAULT_H) /\ Finish(t, OkEmpty)
    /\ UNCHANGED <<REGISTERED_USERS, users_poisoned, AUTH_ID_USER_MAP, auth_poisoned,
                   vP, vG, pP, pG, pH, req, reply, attempt, users_lock, auth_lock,
                   clientVars>>

\* challenge: !REGISTERED_USERS.lock().unwrap().contains_key(&user), then the
\* two draws
ChallengeContains(t) ==
    /\ tasks[t].pc = "challenge_contains"
    /\ users_lock' = "free"
    /\ IF users_poisoned THEN Finish(t, Panicked)
       ELSE IF tasks[t].user \notin DOMAIN REGISTERED_USERS
            THEN Finish(t, Status("NotFound", "user is not registered"))
       ELSE Goto(t, "challenge_lock_modify")
    /\ UNCHANGED <<REGISTERED_USERS, users_poisoned, AUTH_ID_USER_MAP, auth_poisoned,
                   vP, vG, vH, pP, pG, pH, req, reply, attempt, auth_lock,
                   clientVars>>

\* challenge: REGISTERED_USERS.lock().unwrap().entry(user).and_modify(..)
ChallengeModify(t) ==
    /\ tasks[t].pc = "challenge_modify"
    /\ users_lock' = "free"
    /\ IF users_poisoned
       THEN Finish(t, Panicked) /\ UNCHANGED REGISTERED_USERS
       ELSE /\ REGISTERED_USERS' =
                    IF tasks[t].user \notin DOMAIN REGISTERED_USERS THEN REGISTERED_USERS
                    ELSE [REGISTERED_USERS EXCEPT
                            ![tasks[t].user].c = Some(tasks[t].challenge),
                            ![tasks[t].user].r1 = Some(Unwrap(parse_bytes(tasks[t].n1))),
                            ![tasks[t].user].r2 = Some(Unwrap(parse_bytes(tasks[t].n2)))]
            /\ Goto(t, "challenge_lock_insert")
    /\ UNCHANGED <<users_poisoned, AUTH_ID_USER_MAP, auth_poisoned,
                   vP, vG, vH, pP, pG, pH, req, reply, attempt, auth_lock,
                   clientVars>>

\* challenge: AUTH_ID_USER_MAP.lock().unwrap().insert(auth_id, user), and the
\* reply
ChallengeInsert(t) ==
    /\ tasks[t].pc = "challenge_insert"
    /\ auth_lock' = "free"
    /\ IF auth_poisoned
       THEN Finish(t, Panicked) /\ UNCHANGED AUTH_ID_USER_MAP
       ELSE /\ AUTH_ID_USER_MAP' =
                    MapInsert(AUTH_ID_USER_MAP, tasks[t].auth_id, tasks[t].user)
            /\ Finish(t, Reply("Ok", "", to_string(tasks[t].auth_id),
                               to_string(tasks[t].challenge), <<>>))
    /\ UNCHANGED <<REGISTERED_USERS, users_poisoned, auth_poisoned,
                   vP, vG, vH, pP, pG, pH, req, reply, attempt, users_lock,
                   clientVars>>

\* mutant: the guard of AUTH_ID_USER_MAP is kept while REGISTERED_USERS is
\* taken
VerifyGetUserHoldingGuard(t) ==
    /\ tasks[t].pc = "verify_get_user"
    /\ IF auth_poisoned
       THEN Finish(t, Panicked) /\ auth_lock' = "free" /\ UNCHANGED auth_poisoned
       ELSE IF Unwrap(parse_bytes(tasks[t].n1)) \notin DOMAIN AUTH_ID_USER_MAP
       THEN Finish(t, Panicked) /\ auth_lock' = "free" /\ auth_poisoned' = TRUE
       ELSE /\ tasks' = [tasks EXCEPT
                    ![t].user_for_auth_id =
                        AUTH_ID_USER_MAP[Unwrap(parse_bytes(tasks[t].n1))],
                    ![t].pc = "verify_lock_users"]
            /\ UNCHANGED <<auth_poisoned, auth_lock>>
    /\ UNCHANGED <<REGISTERED_USERS, users_poisoned, AUTH_ID_USER_MAP,
                   vP, vG, vH, pP, pG, pH, req, reply, attempt, users_lock,
                   clientVars>>

\* verify: AUTH_ID_USER_MAP.lock().unwrap().get(&auth_id).clone().unwrap().clone()
VerifyGetUser(t) ==
    /\ tasks[t].pc = "verify_get_user"
    /\ auth_lock' = "free"
    /\ IF auth_poisoned
       THEN Finish(t, Panicked) /\ UNCHANGED auth_poisoned
       ELSE IF Unwrap(parse_bytes(tasks[t].n1)) \notin DOMAIN AUTH_ID_USER_MAP
       \* unwrap() of None while the guard is alive
       THEN Finish(t, Panicked) /\ auth_poisoned' = TRUE
       ELSE /\ tasks' = [tasks EXCEPT
                    ![t].user_for_auth_id =
                        AUTH_ID_USER_MAP[Unwrap(parse_bytes(tasks[t].n1))],
                    ![t].pc = "verify_lock_users"]
            /\ UNCHANGED auth_poisoned
    /\ UNCHANGED <<REGISTERED_USERS, users_poisoned, AUTH_ID_USER_MAP,
                   vP, vG, vH, pP, pG, pH, req, reply, attempt, users_lock,
                   clientVars>>

\* verify: REGISTERED_USERS.lock().unwrap().get(&user_for_auth_id).clone().unwrap().clone()
VerifyGetState(t) ==
    /\ tasks[t].pc = "verify_get_state"
    /\ users_lock' = "free"
    /\ IF users_poisoned
       THEN Finish(t, Panicked) /\ UNCHANGED users_poisoned
       ELSE IF tasks[t].user_for_auth_id \notin DOMAIN REGISTERED_USERS
       THEN Finish(t, Panicked) /\ users_poisoned' = TRUE
       ELSE /\ tasks' = [tasks EXCEPT
                    ![t].user_state = Some(REGISTERED_USERS[tasks[t].user_for_auth_id]),
                    ![t].pc = "verify_compute"]
            /\ UNCHANGED users_poisoned
    /\ UNCHANGED <<REGISTERED_USERS, AUTH_ID_USER_MAP, auth_poisoned,
                   vP, vG, vH, pP, pG, pH, req, reply, attempt, auth_lock,
                   clientVars>>

\* verify: the unwraps of r1, r2, c, zkp_verifier::verify and the reply
VerifyCompute(t) ==
    /\ tasks[t].pc = "verify_compute"
    /\ LET user_state == Unwrap(tasks[t].user_state)
           s == Unwrap(parse_bytes(tasks[t].n2))
           cell == [P |-> vP, G |-> vG, H |-> vH]
       IN  IF ~IsSome(user_state.r1) \/ ~IsSome(user_state.r2) \/ ~IsSome(user_state.c)
           THEN Finish(t, Panicked)
           ELSE IF verify_panics(cell, s, Unwrap(user_state.c),
                                 user_state.y1, user_state.y2,
                                 Unwrap(user_state.r1), Unwrap(user_state.r2))
           THEN Finish(t, Panicked)
           ELSE IF verify(cell, s, Unwrap(user_state.c), user_state.y1, user_state.y2,
                          Unwrap(user_state.r1), Unwrap(user_state.r2))
           THEN Finish(t, Reply("Ok", "", <<>>, <<>>, to_string(tasks[t].session_id)))
           ELSE Finish(t, Status("Unauthenticated", "user authentication failed"))
    /\ UNCHANGED <<REGISTERED_USERS, users_poisoned, AUTH_ID_USER_MAP, auth_poisoned,
                   vP, vG, vH, pP, pG, pH, req, reply, attempt, users_lock, auth_lock,
                   clientVars>>

NextConcurrent ==
    \/ \E t \in Tasks, request \in ConcurrentRequests : Start(t, request)
    \/ \E t \in Tasks : LockUsers(t)
    \/ \E t \in Tasks : LockAuth(t)
    \/ \E t \in Tasks : RegisterContains(t)
    \/ \E t \in Tasks : RegisterInsert(t)
    \/ \E t \in Tasks : InitP(t)
    \/ \E t \in Tasks : InitG(t)
    \/ \E t \in Tasks : InitH(t)
    \/ \E t \in Tasks : ChallengeContains(t)
    \/ \E t \in Tasks : ChallengeModify(t)
    \/ \E t \in Tasks : ChallengeInsert(t)
    \/ \E t \in Tasks : VerifyGetUser(t)
    \/ \E t \in Tasks : VerifyGetState(t)
    \/ \E t \in Tasks : VerifyCompute(t)

SpecConcurrent == Init /\ [][NextConcurrent]_vars

----------------------------------------------------------------------------
(* The client (zkp_auth_client): register and login, each with the RPCs it  *)
(* sends served by the verifier before it returns.                          *)

\* the client's process state as one value
Cl == [users |-> CLIENT_REGISTERED_USERS, cell |-> [P |-> pP, G |-> pG, H |-> pH]]

ClientOut(cl, sv, status, sent) == [cl |-> cl, sv |-> sv, status |-> status, rpcs |-> sent]

AlreadyRegistered == ClientStatus("AlreadyRegistered", <<>>, "")
Registered == ClientStatus("Registered", <<>>, "")
UnregisteredUser == ClientStatus("UnregisteredUser", <<>>, "")
Authenticated(session_id) == ClientStatus("Authenticated", session_id, "")
NotAuthenticated(status) == ClientStatus("NotAuthenticated", <<>>, status)
\* the `?` on an RPC that returned Err
ClientErr == ClientStatus("Err", <<>>, "")
\* an unwrap() in the client panicked
ClientPanicked == ClientStatus("Panic", <<>>, "")

\* mutant: the user is added to the local set before the RPC is sent
client_register_eager(cl, sv, user, password) ==
    LET initialised == [cl EXCEPT !.cell = prover_init(cl.cell),
                                  !.users = cl.users \cup {user}]
        secret == parse_bytes(password)
        y == Wire(gen_public(initialised.cell, Unwrap(secret)))
        out == register(sv, user, y[1], y[2])
    IN  IF user \in cl.users THEN ClientOut(cl, sv, AlreadyRegistered, <<>>)
        ELSE IF prover_init_panics(cl.cell) THEN ClientOut(cl, sv, ClientPanicked, <<>>)
        ELSE IF ~IsSome(secret) \/ Unwrap(secret) < 0
             THEN ClientOut(initialised, sv, ClientPanicked, <<>>)
        ELSE IF out.reply.status # "Ok"
             THEN ClientOut(initialised, out.sv, ClientErr,
                            <<Request("register", user, y[1], y[2])>>)
        ELSE ClientOut(initialised, out.sv, Registered,
                       <<Request("register", user, y[1], y[2])>>)

\* zkp_auth_client::register
client_register(cl, sv, user, password) ==
    LET \* zkp_prover::init()
        initialised == [cl EXCEPT !.cell = prover_init(cl.cell)]
        secret == parse_bytes(password)
        y == Wire(gen_public(initialised.cell, Unwrap(secret)))
        out == register(sv, user, y[1], y[2])
    IN  IF user \in cl.users THEN ClientOut(cl, sv, AlreadyRegistered, <<>>)
        ELSE IF prover_init_panics(cl.cell) THEN ClientOut(cl, sv, ClientPanicked, <<>>)
        \* parse_bytes(..).unwrap(); modpow panics on a negative exponent
        ELSE IF ~IsSome(secret) \/ Unwrap(secret) < 0
             THEN ClientOut(initialised, sv, ClientPanicked, <<>>)
        \* auth_client.register(request).await?
        ELSE IF out.reply.status # "Ok"
             THEN ClientOut(initialised, out.sv, ClientErr,
                            <<Request("register", user, y[1], y[2])>>)
        ELSE ClientOut([initialised EXCEPT !.users = cl.users \cup {user}], out.sv,
                       Registered, <<Request("register", user, y[1], y[2])>>)

\* zkp_auth_client::login; k is the client's draw, auth_id, challenge and
\* session_id are the verifier's
client_login(cl, sv, user, password, k, auth_id, challenge, session_id) ==
    LET secret == parse_bytes(password)
        r == Wire(gen_random(cl.cell, k))
        challenge_response ==
            create_authentication_challenge(sv, user, r[1], r[2], auth_id, challenge)
        sent_challenge == Request("challenge", user, r[1], r[2])
        c == parse_bytes(challenge_response.reply.c)
        s == to_string(challenge_answer(Unwrap(c), k, Unwrap(secret)))
        answer == verify_authentication(challenge_response.sv,
                        challenge_response.reply.auth_id, s, session_id)
        sent_answer == Request("verify", "", challenge_response.reply.auth_id, s)
    IN  IF user \notin cl.users THEN ClientOut(cl, sv, UnregisteredUser, <<>>)
        ELSE IF ~IsSome(secret) THEN ClientOut(cl, sv, ClientPanicked, <<>>)
        \* get_g().unwrap() in gen_random
        ELSE IF ~IsSome(cl.cell.P) \/ ~IsSome(cl.cell.G) \/ ~IsSome(cl.cell.H)
             THEN ClientOut(cl, sv, ClientPanicked, <<>>)
        \* create_authentication_challenge(..).await?
        ELSE IF challenge_response.reply.status # "Ok"
             THEN ClientOut(cl, challenge_response.sv, ClientErr, <<sent_challenge>>)
        ELSE IF ~IsSome(c)
             THEN ClientOut(cl, challenge_response.sv, ClientPanicked, <<sent_challenge>>)
        ELSE IF answer.reply.status = "Ok"
             THEN ClientOut(cl, answer.sv, Authenticated(answer.reply.session_id),
                            <<sent_challenge, sent_answer>>)
        ELSE ClientOut(cl, answer.sv, NotAuthenticated(answer.reply.message),
                       <<sent_challenge, sent_answer>>)

\* the passwords users type: two secrets and one that is no decimal number
Passwords == {to_string(MaxX - 1), to_string(MaxX), <<"p", "w">>}

\* handlers::handle_registration, given what zkp_auth_client::register returned
handle_registration(user, status) ==
    IF status.kind = "Registered"
    THEN HttpReply(CREATED, user, <<"registered">>, None)
    ELSE IF status.kind = "AlreadyRegistered"
    THEN HttpReply(CONFLICT, user, <<"already registered">>, None)
    ELSE NoHttpReply

\* handlers::handle_login, given what zkp_auth_client::login returned
handle_login(user, status) ==
    IF status.kind = "UnregisteredUser"
    THEN HttpReply(NOT_FOUND, user, <<"unregistered user">>, None)
    ELSE IF status.kind = "Authenticated"
    THEN HttpReply(UNAUTHORIZED, user, <<"authenticated">>, Some(status.session_id))
    ELSE IF status.kind = "NotAuthenticated"
    THEN HttpReply(OK, user, <<"not authenticated - ", status.status>>, None)
    ELSE NoHttpReply

\* the call's outcome becomes the state of the client and of the verifier,
\* and the REST handler replies
ClientServe(out, response) ==
    /\ CLIENT_REGISTERED_USERS' = out.cl.users
    /\ pP' = out.cl.cell.P /\ pG' = out.cl.cell.G /\ pH' = out.cl.cell.H
    /\ REGISTERED_USERS' = out.sv.users
    /\ users_poisoned' = out.sv.users_poisoned
    /\ AUTH_ID_USER_MAP' = out.sv.auth
    /\ auth_poisoned' = out.sv.auth_poisoned
    /\ vP' = out.sv.cell.P /\ vG' = out.sv.cell.G /\ vH' = out.sv.cell.H
    /\ client_status' = out.status
    /\ rpcs' = out.rpcs
    /\ http_response' = response
    /\ UNCHANGED <<req, reply, attempt, tasks, users_lock, auth_lock>>

ClientRegister(user, password) ==
    /\ client_call' = ClientCall("register", user, password)
    /\ LET out == client_register(Cl, Sv, user, password)
       IN  ClientServe(out, handle_registration(user, out.status))

ClientLogin(user, password, k, auth_id, challenge, session_id) ==
    /\ client_call' = ClientCall("login", user, password)
    /\ LET out == client_login(Cl, Sv, user, password, k, auth_id, challenge,
                            session_id)
       IN  ClientServe(out, handle_login(user, out.status))

\* the client's calls, and Registers sent to the verifier by another client
NextClient ==
    \/ \E user \in Users, password \in Passwords : ClientRegister(user, password)
    \/ \E user \in Users, password \in Passwords, k \in Nonces, auth_id \in AuthIds,
          challenge \in Challenges, session_id \in SessionIds :
            ClientLogin(user, password, k, auth_id, challenge, session_id)
    \/ \E user \in Users :
            LET y == Wire(gen_public(InitialisedCell, MaxX - 1))
            IN  Register(user, y[1], y[2])

SpecClient == Init /\ [][NextClient]_vars

----------------------------------------------------------------------------
(* Properties.  A property of a handler is stated over every reachable     *)
(* state of the verifier and every request: the handler applied to the     *)
(* state, which is exactly the step that serves the request there.         *)

Parses(w) == IsSome(parse_bytes(w))
Value(w) == Unwrap(parse_bytes(w))

SessionReply(session_id) == Reply("Ok", "", <<>>, <<>>, to_string(session_id))

HasAttempt(state) == IsSome(state.r1) /\ IsSome(state.r2) /\ IsSome(state.c)

\* the verification equation, stated without a modular inverse: for s < 0,
\* g^s * y^c = r (mod p) is y^c = r * g^(-s) (mod p); r1' and r2' lie in [0, p)
EquationSide(base, s, y, c, r) ==
    IF s >= 0
    THEN r = (ModPow(base, s, DEFAULT_P) * ModPow(y, c, DEFAULT_P)) % DEFAULT_P
    ELSE /\ r \in 0..(DEFAULT_P - 1)
         /\ ModPow(y, c, DEFAULT_P) = (r * ModPow(base, 0 - s, DEFAULT_P)) % DEFAULT_P

EquationHolds(state, s) ==
    /\ EquationSide(DEFAULT_G, s, state.y1, Unwrap(state.c), Unwrap(state.r1))
    /\ EquationSide(DEFAULT_H, s, state.y2, Unwrap(state.c), Unwrap(state.r2))

\* C1: for a user registered with (g^x, h^x) whose attempt state is
\* (g^k, h^k, c) of its latest challenge, verify(auth_id, k - c*x) with an
\* auth_id issued to that user returns a session_id, whatever requests other
\* than a challenge for that user were served in between.
C1_EndToEndAcceptance ==
    \A a \in DOMAIN AUTH_ID_USER_MAP :
        LET user == AUTH_ID_USER_MAP[a]
        IN  user \in DOMAIN REGISTERED_USERS =>
            LET state == REGISTERED_USERS[user]
            IN  \A x \in 0..MaxX, k \in 0..MaxK, session_id \in SessionIds :
                    ( /\ HasAttempt(state)
                      /\ <<state.y1, state.y2>> = gen_public(InitialisedCell, x)
                      /\ <<Unwrap(state.r1), Unwrap(state.r2)>> = gen_random(InitialisedCell, k) )
                    => verify_authentication(Sv, to_string(a),
                            to_string(challenge_answer(Unwrap(state.c), k, x)),
                            session_id).reply = SessionReply(session_id)

\* C1, while the AUTH_ID_USER_MAP mutex is not poisoned: the same attempt is
\* accepted.
C1_AcceptanceUnlessPoisoned == auth_poisoned \/ C1_EndToEndAcceptance

\* C2: for all x, k, c >= 0 the verifier's (r1', r2') for s = k - c*x equals
\* (g^k, h^k) and verify returns true.
C2_Soundness ==
    attempt.stage = "verified" =>
        /\ attempt.s = attempt.k - attempt.c * attempt.x
        /\ attempt.y = <<ModPow(DEFAULT_G, attempt.x, DEFAULT_P),
                         ModPow(DEFAULT_H, attempt.x, DEFAULT_P)>>
        /\ attempt.r = <<ModPow(DEFAULT_G, attempt.k, DEFAULT_P),
                         ModPow(DEFAULT_H, attempt.k, DEFAULT_P)>>
        /\ attempt.r_prime = attempt.r
        /\ attempt.accepted

C2_Witness ==
    /\ attempt.stage = "verified"
    /\ attempt.s < 0
    /\ attempt.x = MaxX /\ attempt.k = MaxK /\ attempt.c = MaxC
    /\ attempt.accepted

C4_RegisterNewUser ==
    \A user \in Users \ DOMAIN REGISTERED_USERS, y \in RegisterInputs :
        (Parses(y[1]) /\ Parses(y[2])) =>
            LET out == register(Sv, user, y[1], y[2])
            IN  /\ out.reply = OkEmpty
                /\ out.sv.users = MapInsert(REGISTERED_USERS, user,
                        [y1 |-> Value(y[1]), y2 |-> Value(y[2]),
                         r1 |-> None, r2 |-> None, c |-> None])

\* C5: Register of a user already registered returns Ok for any y1, y2 and
\* leaves that user's record (and the rest of the verifier) unchanged.
C5_IdempotentRegistration ==
    \A user \in DOMAIN REGISTERED_USERS, y \in RegisterInputs :
        LET out == register(Sv, user, y[1], y[2])
        IN  /\ out.reply = OkEmpty
            /\ out.sv.users[user] = REGISTERED_USERS[user]
            /\ out.sv = Sv

\* a second Register with another y2 was answered Ok and the record, attempt
\* fields included, is as it was
C5_Witness ==
    /\ req.op = "register" /\ reply.status = "Ok"
    /\ req.user \in DOMAIN REGISTERED_USERS
    /\ Parses(req.n2)
    /\ REGISTERED_USERS[req.user].y2 # Value(req.n2)
    /\ HasAttempt(REGISTERED_USERS[req.user])

\* C6: a challenge for a user that is not registered returns NotFound and
\* changes nothing.
C6_UnknownUser ==
    \A user \in Users \ DOMAIN REGISTERED_USERS, r \in ChallengeInputs,
       auth_id \in AuthIds, challenge \in Challenges :
        (Parses(r[1]) /\ Parses(r[2])) =>
            LET out == create_authentication_challenge(Sv, user, r[1], r[2],
                                                       auth_id, challenge)
            IN  /\ out.reply = Status("NotFound", "user is not registered")
                /\ out.sv.users = REGISTERED_USERS
                /\ out.sv.auth = AUTH_ID_USER_MAP
                /\ out.sv = Sv

C6_Witness ==
    /\ req.op = "challenge" /\ reply.status = "NotFound"
    /\ req.user \notin DOMAIN REGISTERED_USERS
    /\ \A a \in DOMAIN AUTH_ID_USER_MAP : AUTH_ID_USER_MAP[a] # req.user
    /\ DOMAIN REGISTERED_USERS # {}

\* C7: a challenge for a registered user overwrites that user's (r1, r2, c),
\* inserts auth_id -> user, returns (auth_id, c) and leaves the rest alone.
C7_ChallengeEffect ==
    \A user \in DOMAIN REGISTERED_USERS, r \in ChallengeInputs,
       auth_id \in AuthIds, challenge \in Challenges :
        (Parses(r[1]) /\ Parses(r[2])) =>
            LET out == create_authentication_challenge(Sv, user, r[1], r[2],
                                                       auth_id, challenge)
            IN  /\ out.reply = Reply("Ok", "", to_string(auth_id), to_string(challenge), <<>>)
                /\ out.sv.users =
                        [REGISTERED_USERS EXCEPT
                            ![user] = [y1 |-> REGISTERED_USERS[user].y1,
                                       y2 |-> REGISTERED_USERS[user].y2,
                                       r1 |-> Some(Value(r[1])),
                                       r2 |-> Some(Value(r[2])),
                                       c |-> Some(challenge)]]
                /\ DOMAIN out.sv.auth = DOMAIN AUTH_ID_USER_MAP \cup {auth_id}
                /\ out.sv.auth[auth_id] = user
                /\ \A a \in DOMAIN AUTH_ID_USER_MAP \ {auth_id} :
                        out.sv.auth[a] = AUTH_ID_USER_MAP[a]

\* C8: a verify whose auth_id was never issued, or whose user has no attempt
\* state, is answered Unauthenticated.
C8_MissingState ==
    \A v \in VerifyInputs, session_id \in SessionIds :
        ( /\ Parses(v[1]) /\ Parses(v[2])
          /\ \/ Value(v[1]) \notin DOMAIN AUTH_ID_USER_MAP
             \/ ~HasAttempt(REGISTERED_USERS[AUTH_ID_USER_MAP[Value(v[1])]]) )
        => verify_authentication(Sv, v[1], v[2], session_id).reply.status
               = "Unauthenticated"

\* C9: a challenge with a non-decimal r1 or r2, and a verify with a
\* non-decimal auth_id or s, return InvalidArgument and change nothing.
C9_MalformedFields ==
    /\ \A user \in Users, r \in ChallengeInputs, auth_id \in AuthIds,
          challenge \in Challenges :
            (~Parses(r[1]) \/ ~Parses(r[2])) =>
                LET out == create_authentication_challenge(Sv, user, r[1], r[2],
                                                           auth_id, challenge)
                IN  out.reply.status = "InvalidArgument" /\ out.sv = Sv
    /\ \A v \in VerifyInputs, session_id \in SessionIds :
            (~Parses(v[1]) \/ ~Parses(v[2])) =>
                LET out == verify_authentication(Sv, v[1], v[2], session_id)
                IN  out.reply.status = "InvalidArgument" /\ out.sv = Sv

\* C10: Register of an unregistered user with an unparseable y1 or y2 returns
\* InvalidArgument and leaves REGISTERED_USERS unchanged, so that a challenge
\* for that user then returns NotFound.
C10_RegisterUnparseable ==
    \A user \in Users \ DOMAIN REGISTERED_USERS, y \in RegisterInputs :
        (~Parses(y[1]) \/ ~Parses(y[2])) =>
            LET out == register(Sv, user, y[1], y[2])
            IN  /\ out.reply.status = "InvalidArgument"
                /\ out.sv.users = REGISTERED_USERS
                /\ user \notin DOMAIN out.sv.users
                /\ \A r \in ChallengeInputs, auth_id \in AuthIds,
                      challenge \in Challenges :
                        (Parses(r[1]) /\ Parses(r[2])) =>
                            create_authentication_challenge(out.sv, user, r[1], r[2],
                                auth_id, challenge).reply.status = "NotFound"

\* the Register failed, another user is registered, and the user is unknown
C10_Witness ==
    /\ req.op = "register" /\ reply.status = "InvalidArgument"
    /\ ~Parses(req.n2)
    /\ req.user \notin DOMAIN REGISTERED_USERS
    /\ DOMAIN REGISTERED_USERS # {}

\* the values of scenario S5: the public pair of the secret MaxX - 1 and the
\* commitments of the nonces MaxK and MaxK - 1, as sent on the wire
S5_Public == gen_public(InitialisedCell, MaxX - 1)
S5_FirstCommitment == Wire(gen_random(InitialisedCell, MaxK))
S5_SecondCommitment == Wire(gen_random(InitialisedCell, MaxK - 1))

\* C11 (scenario S5): for a user registered with (g^x, h^x), a challenge with
\* (g^k_a, h^k_a) answered (auth_id_a, c_a), then a challenge with
\* (g^k_b, h^k_b) answered (auth_id_b, c_b), then verify(auth_id_a, k_a - c_a*x):
\* the verifier holds (r_b, c_b), and unless the stale answer is also the
\* answer of the second challenge the verify returns Unauthenticated.
C11_StaleVerify ==
    \A user \in DOMAIN REGISTERED_USERS, c_a \in Challenges, c_b \in Challenges,
       a \in {0, MaxAuthId} :
        LET x == MaxX - 1
            k_a == MaxK
            k_b == MaxK - 1
            b == MaxAuthId
            state == REGISTERED_USERS[user]
            r_a == S5_FirstCommitment
            r_b == S5_SecondCommitment
            first == create_authentication_challenge(Sv, user, r_a[1], r_a[2], a, c_a)
            second == create_authentication_challenge(first.sv, user, r_b[1], r_b[2],
                                                      b, c_b)
            s_a == challenge_answer(c_a, k_a, x)
            s_b == challenge_answer(c_b, k_b, x)
            last == verify_authentication(second.sv, to_string(a), to_string(s_a), 0)
        IN  ( /\ ~users_poisoned /\ ~auth_poisoned
              /\ <<state.y1, state.y2>> = S5_Public
              /\ first.reply = Reply("Ok", "", to_string(a), to_string(c_a), <<>>)
              /\ second.reply = Reply("Ok", "", to_string(b), to_string(c_b), <<>>)
              /\ s_a # s_b )
            => /\ second.sv.users[user].c = Some(c_b)
               /\ second.sv.users[user].r1 = Some(Value(r_b[1]))
               /\ last.reply = Status("Unauthenticated", "user authentication failed")

\* two auth_ids were issued to one user, the state holds the challenge 0, and
\* the answer of the challenge MaxC, sent last, was rejected
C11_Witness ==
    /\ req.op = "verify" /\ reply.status = "Unauthenticated"
    /\ req.n2 = to_string(challenge_answer(MaxC, MaxK, MaxX - 1))
    /\ Parses(req.n1) /\ Value(req.n1) \in DOMAIN AUTH_ID_USER_MAP
    /\ LET user == AUTH_ID_USER_MAP[Value(req.n1)]
       IN  /\ \E b \in DOMAIN AUTH_ID_USER_MAP \ {Value(req.n1)} :
                    AUTH_ID_USER_MAP[b] = user
           /\ <<REGISTERED_USERS[user].y1, REGISTERED_USERS[user].y2>>
                    = gen_public(InitialisedCell, MaxX - 1)
           /\ REGISTERED_USERS[user].c = Some(0)

\* C12: after a verify(auth_id, s) that returned a session_id, and one more
\* request served that is no challenge for that user (and no challenge that
\* draws the same auth_id), the same (auth_id, s) sent again returns a
\* session_id again.
C12_Replay ==
    [][ ( /\ req.op = "verify" /\ reply.status = "Ok"
          /\ LET a == Value(req.n1)
             IN  req'.op = "challenge" =>
                    /\ req'.user # AUTH_ID_USER_MAP[a]
                    /\ AUTH_ID_USER_MAP'[a] = AUTH_ID_USER_MAP[a] )
        => \A session_id \in SessionIds :
                verify_authentication(Sv', req.n1, req.n2, session_id).reply
                    = SessionReply(session_id) ]_vars

\* C12, with nothing served in between: a verify that returned a session_id
\* returns one again on the state it left.
C12_ImmediateReplay ==
    \A v \in VerifyInputs, first_id \in SessionIds, second_id \in SessionIds :
        LET first == verify_authentication(Sv, v[1], v[2], first_id)
        IN  first.reply.status = "Ok" =>
                verify_authentication(first.sv, v[1], v[2], second_id).reply
                    = SessionReply(second_id)

\* C19: a verify that does not return a session_id leaves both maps
\* accessible: a challenge for a registered user served after it is answered
\* Ok, and so is every verify that would have returned a session_id.
C19_FailedVerifyHarmless ==
    \A v \in VerifyInputs :
        (Parses(v[1]) /\ Parses(v[2])) =>
            LET failed == verify_authentication(Sv, v[1], v[2], 0)
            IN  failed.reply.status # "Ok" =>
                    /\ \A user \in DOMAIN REGISTERED_USERS, r \in ChallengeInputs :
                            (Parses(r[1]) /\ Parses(r[2])) =>
                                create_authentication_challenge(failed.sv, user,
                                    r[1], r[2], 0, 0).reply.status = "Ok"
                    /\ \A w \in VerifyInputs :
                            verify_authentication(Sv, w[1], w[2], 0).reply.status = "Ok"
                            => verify_authentication(failed.sv, w[1], w[2], 0).reply.status
                                    = "Ok"

\* C20: a verify answered with a session_id or with Unauthenticated leaves
\* REGISTERED_USERS and AUTH_ID_USER_MAP as they were, and the attempt fields
\* of a registered user change only in a challenge for that user.
C20_VerifyReadOnly ==
    [][ /\ (req'.op = "verify" /\ reply'.status \in {"Ok", "Unauthenticated"}) =>
                /\ REGISTERED_USERS' = REGISTERED_USERS
                /\ AUTH_ID_USER_MAP' = AUTH_ID_USER_MAP
                /\ users_poisoned' = users_poisoned
                /\ auth_poisoned' = auth_poisoned
        /\ \A user \in DOMAIN REGISTERED_USERS :
                ( \/ user \notin DOMAIN REGISTERED_USERS'
                  \/ REGISTERED_USERS'[user].r1 # REGISTERED_USERS[user].r1
                  \/ REGISTERED_USERS'[user].r2 # REGISTERED_USERS[user].r2
                  \/ REGISTERED_USERS'[user].c # REGISTERED_USERS[user].c )
                => (req'.op = "challenge" /\ req'.user = user) ]_vars

\* a verify was answered Unauthenticated and the attempt it was evaluated
\* against is still stored under its auth_id
C20_Witness ==
    /\ req.op = "verify" /\ reply.status = "Unauthenticated"
    /\ Parses(req.n1) /\ Value(req.n1) \in DOMAIN AUTH_ID_USER_MAP
    /\ HasAttempt(REGISTERED_USERS[AUTH_ID_USER_MAP[Value(req.n1)]])
    /\ REGISTERED_USERS[AUTH_ID_USER_MAP[Value(req.n1)]].c = Some(MaxC)

\* C13: in every reachable state of the concurrent handlers, every auth_id
\* in AUTH_ID_USER_MAP maps to a user in REGISTERED_USERS whose r1, r2 and c
\* are all populated.
C13_AuthIdHasAttempt ==
    \A a \in DOMAIN AUTH_ID_USER_MAP :
        /\ AUTH_ID_USER_MAP[a] \in DOMAIN REGISTERED_USERS
        /\ HasAttempt(REGISTERED_USERS[AUTH_ID_USER_MAP[a]])

\* C14: no task holds both mutexes, a task that requests a mutex holds none,
\* the holder of a mutex is at the one statement executed under its guard
\* (which always can run and releases it), and so while any handler is
\* unfinished some task can take a step.
C14_LockDiscipline ==
    LET UnderUsers == {AfterLockUsers[pc] : pc \in DOMAIN AfterLockUsers}
        UnderAuth == {AfterLockAuth[pc] : pc \in DOMAIN AfterLockAuth}
        Requests(t) == tasks[t].pc \in DOMAIN AfterLockUsers \cup DOMAIN AfterLockAuth
        CanStep(t) ==
            \/ tasks[t].pc \in DOMAIN AfterLockUsers /\ users_lock = "free"
            \/ tasks[t].pc \in DOMAIN AfterLockAuth /\ auth_lock = "free"
            \/ ~Requests(t) /\ tasks[t].pc \notin {"idle", "done"}
    IN  /\ \A t \in Tasks : ~(users_lock = t /\ auth_lock = t)
        /\ \A t \in Tasks : Requests(t) => (users_lock # t /\ auth_lock # t)
        /\ \A t \in Tasks : users_lock = t <=> tasks[t].pc \in UnderUsers
        /\ \A t \in Tasks : auth_lock = t <=> tasks[t].pc \in UnderAuth
        /\ (\E t \in Tasks : tasks[t].pc \notin {"idle", "done"})
                => \E t \in Tasks : CanStep(t)

\* one task holds REGISTERED_USERS, another holds AUTH_ID_USER_MAP, and a
\* verify waits for AUTH_ID_USER_MAP
C14_Witness ==
    \E t1 \in Tasks, t2 \in Tasks, t3 \in Tasks :
        /\ users_lock = t1 /\ auth_lock = t2 /\ t1 # t2
        /\ tasks[t3].pc = "verify_lock_auth"

\* C15: in every step of the concurrent handlers, a user in REGISTERED_USERS
\* stays in it with the same (y1, y2).
C15_RegisteredPermanent ==
    [][ \A user \in DOMAIN REGISTERED_USERS :
            /\ user \in DOMAIN REGISTERED_USERS'
            /\ REGISTERED_USERS'[user].y1 = REGISTERED_USERS[user].y1
            /\ REGISTERED_USERS'[user].y2 = REGISTERED_USERS[user].y2 ]_vars

\* C16: on both sides a cell that is set holds the value init() gives it,
\* the same on the prover and on the verifier; the cells are set whenever a
\* gen_random (a login of a locally registered user) or a verify (a user
\* registered at the verifier) can run; and a cell that is set never changes.
C16_GroupParameters ==
    /\ []( /\ pP \in {None, Some(DEFAULT_P)} /\ vP \in {None, Some(DEFAULT_P)}
           /\ pG \in {None, Some(DEFAULT_G)} /\ vG \in {None, Some(DEFAULT_G)}
           /\ pH \in {None, Some(DEFAULT_H)} /\ vH \in {None, Some(DEFAULT_H)}
           /\ CLIENT_REGISTERED_USERS # {} => (IsSome(pP) /\ IsSome(pG) /\ IsSome(pH))
           /\ DOMAIN REGISTERED_USERS # {} => (IsSome(vP) /\ IsSome(vG) /\ IsSome(vH))
           /\ (IsSome(pP) /\ IsSome(vP)) => <<pP, pG, pH>> = <<vP, vG, vH>> )
    /\ [][ /\ IsSome(pP) => pP' = pP
           /\ IsSome(pG) => pG' = pG
           /\ IsSome(pH) => pH' = pH
           /\ IsSome(vP) => vP' = vP
           /\ IsSome(vG) => vG' = vG
           /\ IsSome(vH) => vH' = vH ]_vars

\* a login ran gen_random on the prover and verify on the verifier and was
\* accepted
C16_Witness ==
    /\ client_call.op = "login" /\ client_status.kind = "Authenticated"
    /\ <<pP, pG, pH>> = <<Some(DEFAULT_P), Some(DEFAULT_G), Some(DEFAULT_H)>>
    /\ <<vP, vG, vH>> = <<pP, pG, pH>>

\* C17: register for a user in the local set returns AlreadyRegistered and
\* login for a user not in it returns UnregisteredUser, both without an RPC
\* and without a change; a register adds the user to the local set only
\* if it sent one Register RPC and the verifier answered it Ok.
C17_ClientShortCircuit ==
    /\ \A user \in CLIENT_REGISTERED_USERS, password \in Passwords :
            client_register(Cl, Sv, user, password)
                = ClientOut(Cl, Sv, AlreadyRegistered, <<>>)
    /\ \A user \in Users \ CLIENT_REGISTERED_USERS, password \in Passwords,
          k \in Nonces, auth_id \in AuthIds, challenge \in Challenges :
            client_login(Cl, Sv, user, password, k, auth_id, challenge, 0)
                = ClientOut(Cl, Sv, UnregisteredUser, <<>>)
    /\ \A user \in Users \ CLIENT_REGISTERED_USERS, password \in Passwords :
            LET out == client_register(Cl, Sv, user, password)
            IN  /\ out.cl.users \subseteq CLIENT_REGISTERED_USERS \cup {user}
                /\ user \in out.cl.users <=> out.status = Registered
                /\ user \in out.cl.users =>
                        /\ Len(out.rpcs) = 1
                        /\ out.rpcs[1].op = "register" /\ out.rpcs[1].user = user
                        /\ register(Sv, user, out.rpcs[1].n1, out.rpcs[1].n2).reply
                                = OkEmpty
                        /\ user \in DOMAIN out.sv.users

\* a login for a user the verifier knows, but not this client, was answered
\* UnregisteredUser without an RPC
C17_Witness ==
    /\ client_call.op = "login" /\ client_status = UnregisteredUser
    /\ rpcs = <<>>
    /\ client_call.user \in DOMAIN REGISTERED_USERS
    /\ client_call.user \notin CLIENT_REGISTERED_USERS
    /\ CLIENT_REGISTERED_USERS # {}

\* C18: after a user was registered by this client, register(user, x) for
\* another user not in the local set returns Registered, sends one Register
\* RPC with (g^x, h^x) and adds the user to the local set.
C18_ClientRegistersSeveral ==
    CLIENT_REGISTERED_USERS # {} =>
        \A user \in Users \ CLIENT_REGISTERED_USERS, password \in Passwords :
            (Parses(password) /\ Value(password) >= 0) =>
                LET out == client_register(Cl, Sv, user, password)
                    y == Wire(gen_public(InitialisedCell, Value(password)))
                IN  /\ out.status = Registered
                    /\ out.rpcs = <<Request("register", user, y[1], y[2])>>
                    /\ out.cl.users = CLIENT_REGISTERED_USERS \cup {user}

\* (g^e mod p, h^e mod p) as verify computes them for an exponent of either
\* sign: its (r1', r2') for s = e, c = 0 and y1 = y2 = 1
SignedPowers(e) == verify_r_prime(InitialisedCell, e, 0, 1, 1)

\* C21: verify returns a boolean for every s and every c, negative ones
\* included, and the powers it computes for s and for -s multiply to 1 mod p.
C21_NegativeExponents ==
    /\ attempt.stage # "panicked"
    /\ attempt.stage = "verified" =>
            /\ attempt.accepted \in BOOLEAN
            /\ (SignedPowers(attempt.s)[1] * SignedPowers(0 - attempt.s)[1]) % DEFAULT_P = 1
            /\ (SignedPowers(attempt.s)[2] * SignedPowers(0 - attempt.s)[2]) % DEFAULT_P = 1

\* C21, for the answer alone: whenever verify returns, the powers it
\* computes for s and for -s multiply to 1 mod p.
C21_NegativeAnswer ==
    attempt.stage = "verified" =>
        /\ (SignedPowers(attempt.s)[1] * SignedPowers(0 - attempt.s)[1]) % DEFAULT_P = 1
        /\ (SignedPowers(attempt.s)[2] * SignedPowers(0 - attempt.s)[2]) % DEFAULT_P = 1

\* the call has returned the unique inverse of b modulo phi in [0, phi)
ReturnedInverse ==
    attempt.stage = "returned" =>
        /\ attempt.inverse \in 0..(attempt.phi - 1)
        /\ (attempt.inverse * attempt.b) % attempt.phi = 1
        /\ \A r \in 0..(attempt.phi - 1) :
                (r * attempt.b) % attempt.phi = 1 => r = attempt.inverse
        /\ attempt.inverse = get_extended_euclidean(attempt.b, attempt.phi)

\* C22: for every prime p up to MaxPrime and every a in [1, p),
\* get_extended_euclidean(a, p) terminates, and what it returns is the
\* unique r in [0, p) with (r * a) mod p = 1.
C22_ModularInverse == []ReturnedInverse /\ <>(attempt.stage = "returned")

\* a call whose coefficient came out negative and was brought into [0, phi)
C22_Witness ==
    /\ attempt.stage = "returned"
    /\ attempt.phi = 7 /\ attempt.b = 6
    /\ attempt.u[2] < 0
    /\ attempt.inverse = 6

\* C23: handle_login answers a login the verifier accepted with a success
\* HTTP status, status "authenticated" and a session_id, and every other
\* outcome (NotAuthenticated, UnregisteredUser) with an error HTTP status and
\* no session_id.
C23_LoginOutcome ==
    client_call.op = "login" =>
        /\ client_status.kind = "Authenticated" =>
                /\ http_response.code \in 200..299
                /\ http_response.status = <<"authenticated">>
                /\ http_response.session_id = Some(client_status.session_id)
        /\ client_status.kind \in {"NotAuthenticated", "UnregisteredUser"} =>
                /\ http_response.code \in 400..599
                /\ http_response.session_id = None

\* C23, for the accepted login alone: it is answered with a success status
C23_AcceptedIsSuccess ==
    (client_call.op = "login" /\ client_status.kind = "Authenticated") =>
        http_response.code \in 200..299

\* C23, for the rejected login alone: it is answered with an error status
C23_RejectedIsError ==
    (client_call.op = "login" /\ client_status.kind = "NotAuthenticated") =>
        http_response.code \in 400..599

\* C23, for what the code does get right: the status text and the session_id
\* follow the outcome, and an unregistered user is answered with an error
C23_BodyFollowsOutcome ==
    client_call.op = "login" =>
        /\ client_status.kind = "Authenticated" =>
                /\ http_response.status = <<"authenticated">>
                /\ http_response.session_id = Some(client_status.session_id)
        /\ client_status.kind = "NotAuthenticated" =>
                http_response.session_id = None
        /\ client_status.kind = "UnregisteredUser" =>
                /\ http_response.code \in 400..599
                /\ http_response.session_id = None

====
